---- MODULE Spec2Model ----
(***************************************************************************)
(* Model of the recursive web crawler (web_crawler.py) and of the file     *)
(* sink it saves through (file_saver.py).                                  *)
(*                                                                         *)
(* The recursion of WebCrawler.crawl is an explicit stack of frames; each  *)
(* frame holds the url, the depth and the position inside crawl.  The web  *)
(* (what each URL answers and which links each page carries) and the files *)
(* already on disk are inputs, drawn in Init from bounded sets.            *)
(***************************************************************************)
EXTENDS Integers, Sequences, FiniteSets, TLC

\* ---------------------------------------------------------------- bounds
MaxDepth == 2      \* largest max_depth given to crawl
MaxLinks == 2      \* longest list of <a href> on the seed of a small site
BigPages == 21     \* number of pages of the largest star-shaped site
MaxPre == 1        \* how many numbered files may exist before the run

\* ------------------------------------------------------ program constants
SaveEvery == 10    \* web_crawler.py:77  len(self.results) % 10

\* ------------------------------------------------------------------ URLs
\* A URL is its network location and its path; an href with an empty
\* network location is a relative reference.
Url(n, p) == [netloc |-> n, path |-> p]
Rel(p) == Url("", p)

BaseUrl == Url("ex.test", 0)
OtherUrl == Url("other.test", 0)
SubUrl == Url("sub.ex.test", 0)

\* urllib.parse.urlparse(url).netloc
Netloc(url) == url.netloc

\* urllib.parse.urljoin(url, href): a relative href takes the page's
\* network location, an absolute one replaces it.
UrlJoin(url, href) ==
    IF href.netloc = "" THEN Url(Netloc(url), href.path) ELSE href

\* ------------------------------------------------------------- the web
\* What a URL answers: "html" (200, text/html), "nonhtml" (200, another
\* content type), "fail" (RequestException on every attempt), "flaky"
\* (each attempt either raises or answers html).
Page(st, ls, ht) == [status |-> st, links |-> ls, hasTitle |-> ht]

RECURSIVE SeqsUpTo(_, _)
SeqsUpTo(S, n) ==
    IF n = 0 THEN {<<>>}
    ELSE LET shorter == SeqsUpTo(S, n - 1)
         IN  shorter \cup {Append(s, x) : s \in {t \in shorter : Len(t) = n - 1}, x \in S}

\* Small sites: four pages on the seed's domain and two foreign pages.
SeedTargets == {Rel(1), Rel(2), OtherUrl}
InnerTargets == {Rel(2), Rel(3)}
BackTargets == {Rel(2), Rel(3), BaseUrl, SubUrl}

BadChoices ==
    {[page |-> -1, status |-> "html"]}
        \cup {[page |-> p, status |-> s] : p \in {1, 3}, s \in {"fail", "nonhtml", "flaky"}}
        \cup {[page |-> 0, status |-> "fail"]}

SmallWeb(l0, l1, l2, bad) ==
    LET st(p) == IF bad.page = p THEN bad.status ELSE "html"
    IN  (Url("ex.test", 0) :> Page(st(0), l0, TRUE))
        @@ (Url("ex.test", 1) :> Page(st(1), l1, TRUE))
        @@ (Url("ex.test", 2) :> Page(st(2), l2, TRUE))
        @@ (Url("ex.test", 3) :> Page(st(3), <<>>, FALSE))
        @@ (OtherUrl :> Page("html", <<Rel(0)>>, TRUE))
        @@ (SubUrl :> Page("html", <<BaseUrl>>, TRUE))

SmallWebs ==
    {SmallWeb(l0, l1, l2, bad) :
        l0 \in SeqsUpTo(SeedTargets, MaxLinks),
        l1 \in SeqsUpTo(InnerTargets, 1),
        l2 \in SeqsUpTo(BackTargets, 1),
        bad \in BadChoices}

\* Star sites: the seed links to pages 1 .. n-1, which link back to it.
StarWeb(n, badPage) ==
    [u \in {Url("ex.test", p) : p \in 0 .. n - 1} |->
        IF u.path = 0
        THEN Page("html", [i \in 1 .. n - 1 |-> Rel(i)], TRUE)
        ELSE Page(IF u.path = badPage THEN "fail" ELSE "html", <<Rel(0)>>, FALSE)]

StarWebs ==
    {StarWeb(n, b) : n \in SaveEvery .. BigPages, b \in {-1, 1}}

\* ------------------------------------------------------------ the files
\* File k is the output file for k = 0 and base_k+ext for k > 0.
MaxFiles == MaxPre + (BigPages \div SaveEvery) + 1
FileIdx == 0 .. MaxFiles
NoFile == [exists |-> FALSE, data |-> <<>>]
File(d) == [exists |-> TRUE, data |-> d]
OldData == <<[k |-> "old", v |-> ""]>>

Disk(pre) == [k \in FileIdx |-> IF k \in pre THEN File(OldData) ELSE NoFile]
EmptyDisk == Disk({})
InitialDisks ==
    {Disk(pre) : pre \in {s \in SUBSET (0 .. MaxPre) : Cardinality(s) <= MaxPre}}

VARIABLES
    web,           \* input: the site being crawled
    fs,            \* the files of the output directory
    pc,            \* position of the caller of crawl
    max_depth,     \* the max_depth argument of the run
    stack,         \* the active calls of crawl, innermost last
    visited_urls,  \* WebCrawler.visited_urls
    results,       \* WebCrawler.results
    fetchLog,      \* history: every requests.get, in order
    appendLog,     \* history: every results.append, with its depth
    saveLog        \* history: every FileSaver.save call, in order

vars == <<web, fs, pc, max_depth, stack, visited_urls, results,
          fetchLog, appendLog, saveLog>>

\* --------------------------------------------------- the result records
\* soup.title.string if soup.title else "No Title"
ExtractTitle(page) == IF page.hasTitle THEN "Page" ELSE "No Title"

\* the dictionary appended to results (crawl, lines 70-74)
PageRecord(url) ==
    [Title |-> ExtractTitle(web[url]), URL |-> url, ExtractedText |-> "text"]

\* json.dumps(results, indent=4): "[" , one object per record, "]".
Tok(k, v) == [k |-> k, v |-> v]
RenderRecord(r) ==
    <<Tok("{", ""), Tok("Title", r.Title), Tok("URL", r.URL),
      Tok("ExtractedText", r.ExtractedText), Tok("}", "")>>

RECURSIVE RenderAll(_)
RenderAll(rs) ==
    IF rs = <<>> THEN <<>>
    ELSE RenderRecord(Head(rs)) \o RenderAll(Tail(rs))

get_results_as_json(rs) == <<Tok("[", "")>> \o RenderAll(rs) \o <<Tok("]", "")>>

\* ------------------------------------------------------- FileSaver.save
\* mutant: a content without records counts as empty
IsEmptyContent_Brackets(content) == Len(content) <= 2

\* "if not content": the empty string is rejected with ValueError
IsEmptyContent(content) == Len(content) = 0

\* mutant: the name is never incremented
FreeIndex_Output(files) == 0

\* mutant: the name is incremented once at most
FreeIndex_Once(files) == IF files[0].exists THEN 1 ELSE 0

\* the while loop over os.path.exists: the first free name
FreeIndex(files) ==
    CHOOSE k \in FileIdx :
        /\ ~files[k].exists
        /\ \A j \in 0 .. k - 1 : files[j].exists

\* What the disk does to a write: "ok"; "open_error" (open raises, no file
\* is made); "write_error" (the file is made, write raises part way).
IoOutcomes == {"ok", "open_error", "write_error"}

Truncated(content) == SubSeq(content, 1, Len(content) \div 2)

\* FileSaver.save(content, filename=output_file): the files afterwards, the
\* exception raised ("none" when it returns) and the index of the path used.
FileSaverSave(files, content, io) ==
    IF IsEmptyContent(content)
    THEN [files |-> files, raised |-> "ValueError", path |-> -1]
    ELSE LET k == FreeIndex(files)
         IN  CASE io = "ok" ->
                    [files |-> [files EXCEPT ![k] = File(content)],
                     raised |-> "none", path |-> k]
               [] io = "open_error" ->
                    [files |-> files, raised |-> "OSError", path |-> k]
               [] OTHER ->
                    [files |-> [files EXCEPT ![k] = File(Truncated(content))],
                     raised |-> "OSError", path |-> k]

\* history entry of one save: what was passed, what came back, and how many
\* records and fetches the run had made when it was issued
SaveEntry(kind, content, r, size, fetched) ==
    [kind |-> kind, content |-> content, raised |-> r.raised, path |-> r.path,
     size |-> size, fetched |-> fetched]

\* ------------------------------------------------------ WebCrawler.crawl
Frame(url, depth, at, i) == [url |-> url, depth |-> depth, at |-> at, i |-> i]
Top == stack[Len(stack)]
Pop == SubSeq(stack, 1, Len(stack) - 1)
ReplaceTop(f) == [stack EXCEPT ![Len(stack)] = f]

\* mutant: the depth cutoff is off by one
DepthExceeded_OffByOne(current_depth, limit) == current_depth > limit + 1

\* line 49: if current_depth > max_depth or url in self.visited_urls: return
DepthExceeded(current_depth, limit) == current_depth > limit
GuardReturns(url, current_depth) ==
    DepthExceeded(current_depth, max_depth) \/ url \in visited_urls

\* mutant: the domain comparison is dropped
_is_valid_url_AnyDomain(url) == url \notin visited_urls

\* mutant: the domain comparison accepts subdomains of the seed's domain
_is_valid_url_Subdomain(url) ==
    Netloc(url) \in {Netloc(BaseUrl), Netloc(SubUrl)} /\ url \notin visited_urls

\* lines 88-90
_is_valid_url(url) ==
    Netloc(url) = Netloc(BaseUrl) /\ url \notin visited_urls

\* what one requests.get of url can answer
FetchOutcomes(url) ==
    IF url \notin DOMAIN web THEN {"fail"}
    ELSE CASE web[url].status = "html" -> {"html"}
           [] web[url].status = "nonhtml" -> {"nonhtml"}
           [] web[url].status = "fail" -> {"fail"}
           [] OTHER -> {"fail", "html"}

\* mutant: every answer is taken for HTML
IsHtml_Always(outcome) == TRUE

\* line 61: "text/html" in Content-Type
IsHtml(outcome) == outcome = "html"

\* mutant: the page is not marked visited
VisitedAfter_Forgets(url) == visited_urls

\* line 65
VisitedAfter(url) == visited_urls \cup {url}

\* mutant: the checkpoint fires one record early
CheckpointDue_Early(n) == (n + 1) % SaveEvery = 0

\* mutant: the record replaces the list
ResultsAfter_Replace(rec) == <<rec>>

\* lines 70-74: self.results.append(...)
ResultsAfter(rec) == Append(results, rec)

\* line 77
CheckpointDue(n) == n % SaveEvery = 0

Crawling == pc \in {"main_crawl", "api_crawl"} /\ stack # <<>>

\* The small sites vary the link graph over an empty output directory; the
\* star sites vary the files that exist before the run.
Init ==
    /\ \/ web \in SmallWebs /\ fs = EmptyDisk
       \/ web \in StarWebs /\ fs \in InitialDisks
    /\ pc = "init"
    /\ max_depth = 0
    /\ stack = <<>>
    /\ visited_urls = {}
    /\ results = <<>>
    /\ fetchLog = <<>>
    /\ appendLog = <<>>
    /\ saveLog = <<>>

\* __main__, lines 128-130: max_depth < 1 is refused before any crawl
MainInvalidDepth ==
    /\ pc = "init"
    /\ \E d \in 0 .. MaxDepth :
        /\ d < 1
        /\ max_depth' = d
    /\ pc' = "exit1"
    /\ UNCHANGED <<web, fs, stack, visited_urls, results, fetchLog, appendLog, saveLog>>

\* __main__, lines 138-142: crawler.crawl(args.base_url, max_depth=args.max_depth)
MainStart ==
    /\ pc = "init"
    /\ \E d \in 0 .. MaxDepth :
        /\ ~(d < 1)
        /\ max_depth' = d
    /\ pc' = "main_crawl"
    /\ stack' = <<Frame(BaseUrl, 0, "enter", 0)>>
    /\ UNCHANGED <<web, fs, visited_urls, results, fetchLog, appendLog, saveLog>>

\* a direct call crawl(base_url, max_depth) by code that imports WebCrawler
ApiStart ==
    /\ pc = "init"
    /\ \E d \in 0 .. MaxDepth : max_depth' = d
    /\ pc' = "api_crawl"
    /\ stack' = <<Frame(BaseUrl, 0, "enter", 0)>>
    /\ UNCHANGED <<web, fs, visited_urls, results, fetchLog, appendLog, saveLog>>

\* line 49-50: the early return
CrawlGuardReturn ==
    /\ Crawling
    /\ Top.at = "enter"
    /\ GuardReturns(Top.url, Top.depth)
    /\ stack' = Pop
    /\ UNCHANGED <<web, fs, pc, max_depth, visited_urls, results, fetchLog, appendLog, saveLog>>

\* line 52: the guard passed, the request is about to be made
CrawlAdmit ==
    /\ Crawling
    /\ Top.at = "enter"
    /\ ~GuardReturns(Top.url, Top.depth)
    /\ stack' = ReplaceTop(Frame(Top.url, Top.depth, "fetch", 0))
    /\ UNCHANGED <<web, fs, pc, max_depth, visited_urls, results, fetchLog, appendLog, saveLog>>

LogFetch(outcome) ==
    fetchLog' = Append(fetchLog, [url |-> Top.url, outcome |-> outcome, depth |-> Top.depth])

\* lines 54-59: the request raises; crawl returns
FetchFailed ==
    /\ Crawling
    /\ Top.at = "fetch"
    /\ "fail" \in FetchOutcomes(Top.url)
    /\ LogFetch("fail")
    /\ stack' = Pop
    /\ UNCHANGED <<web, fs, pc, max_depth, visited_urls, results, appendLog, saveLog>>

\* lines 54-63: the request answers, and crawl returns unless it is HTML;
\* lines 65-78: the page is marked visited, recorded, and every tenth record
\* triggers _save_progress, which swallows whatever FileSaver.save raises.
FetchAnswered ==
    /\ Crawling
    /\ Top.at = "fetch"
    /\ \E outcome \in FetchOutcomes(Top.url) \ {"fail"} :
        /\ LogFetch(outcome)
        /\ IF ~IsHtml(outcome)
           THEN /\ stack' = Pop
                /\ UNCHANGED <<fs, visited_urls, results, appendLog, saveLog>>
           ELSE /\ visited_urls' = VisitedAfter(Top.url)
                /\ results' = ResultsAfter(PageRecord(Top.url))
                /\ appendLog' = Append(appendLog,
                        [rec |-> PageRecord(Top.url), depth |-> Top.depth])
                /\ stack' = ReplaceTop(Frame(Top.url, Top.depth, "links", 1))
                /\ IF CheckpointDue(Len(results'))
                   THEN \E io \in IoOutcomes :
                          LET content == get_results_as_json(results')
                              r == FileSaverSave(fs, content, io)
                          IN  /\ fs' = r.files
                              /\ saveLog' = Append(saveLog, SaveEntry("checkpoint", content, r,
                                                    Len(results) + 1, Len(fetchLog) + 1))
                   ELSE UNCHANGED <<fs, saveLog>>
    /\ UNCHANGED <<web, pc, max_depth>>

Links(url) == web[url].links

\* mutant: the call is put off until the calls already active have ended
PushCall_Deferred(caller, callee) == <<callee>> \o ReplaceTop(caller)

\* line 86: the recursive call runs at once, on top of its caller
PushCall(caller, callee) == Append(ReplaceTop(caller), callee)

\* lines 80-85: the next link is not valid; continue
LinkSkipped ==
    /\ Crawling
    /\ Top.at = "links"
    /\ Top.i <= Len(Links(Top.url))
    /\ ~_is_valid_url(UrlJoin(Top.url, Links(Top.url)[Top.i]))
    /\ stack' = ReplaceTop(Frame(Top.url, Top.depth, "links", Top.i + 1))
    /\ UNCHANGED <<web, fs, pc, max_depth, visited_urls, results, fetchLog, appendLog, saveLog>>

\* lines 80-86: the next link is valid; crawl(full_url, max_depth, current_depth + 1)
LinkFollowed ==
    /\ Crawling
    /\ Top.at = "links"
    /\ Top.i <= Len(Links(Top.url))
    /\ LET full_url == UrlJoin(Top.url, Links(Top.url)[Top.i])
       IN  /\ _is_valid_url(full_url)
           /\ stack' = PushCall(Frame(Top.url, Top.depth, "links", Top.i + 1),
                                Frame(full_url, Top.depth + 1, "enter", 0))
    /\ UNCHANGED <<web, fs, pc, max_depth, visited_urls, results, fetchLog, appendLog, saveLog>>

\* line 86 falls off the end of the loop: crawl returns
CrawlReturn ==
    /\ Crawling
    /\ Top.at = "links"
    /\ Top.i > Len(Links(Top.url))
    /\ stack' = Pop
    /\ UNCHANGED <<web, fs, pc, max_depth, visited_urls, results, fetchLog, appendLog, saveLog>>

\* mutant: main reports success whatever the save raised
MainOutcome_AlwaysSaved(raised) == "saved"

\* __main__, lines 146-150: "Crawl results saved" or, in the except branch,
\* "An error occurred during the crawl"
MainOutcome(raised) == IF raised = "none" THEN "saved" ELSE "error_logged"

\* __main__, lines 143-150: the final save; an exception is logged by main
MainFinalSave ==
    /\ pc = "main_crawl"
    /\ stack = <<>>
    /\ \E io \in IoOutcomes :
        LET content == get_results_as_json(results)
            r == FileSaverSave(fs, content, io)
        IN  /\ fs' = r.files
            /\ results' = results
            /\ saveLog' = Append(saveLog, SaveEntry("final", content, r,
                                            Len(results), Len(fetchLog)))
            /\ pc' = MainOutcome(r.raised)
    /\ UNCHANGED <<web, max_depth, stack, visited_urls, fetchLog, appendLog>>

\* the direct call returns to its caller
ApiReturn ==
    /\ pc = "api_crawl"
    /\ stack = <<>>
    /\ pc' = "api_returned"
    /\ UNCHANGED <<web, fs, max_depth, stack, visited_urls, results, fetchLog, appendLog, saveLog>>

Next ==
    \/ MainInvalidDepth
    \/ MainStart
    \/ ApiStart
    \/ CrawlGuardReturn
    \/ CrawlAdmit
    \/ FetchFailed
    \/ FetchAnswered
    \/ LinkSkipped
    \/ LinkFollowed
    \/ CrawlReturn
    \/ MainFinalSave
    \/ ApiReturn

Spec == Init /\ [][Next]_vars

\* The interpreter keeps executing the program: a step that can be taken is
\* taken.
FairSpec == Spec /\ WF_vars(Next)

\* ============================================================== claims
RecordedUrls == {results[i].URL : i \in DOMAIN results}
AppendedRecs == [i \in DOMAIN appendLog |-> appendLog[i].rec]
LinkTargets(url) == {UrlJoin(url, Links(url)[i]) : i \in DOMAIN Links(url)}
InScope(url) == Netloc(url) = Netloc(BaseUrl)
CrawlReturned == pc \in {"saved", "error_logged", "api_returned"}
IsCheckpoint(e) == e.kind = "checkpoint"
Checkpoints == SelectSeq(saveLog, IsCheckpoint)

\* the URLs within k links of the seed along pages of the set through
RECURSIVE ReachVia(_, _)
ReachVia(through, k) ==
    IF k = 0 THEN {BaseUrl}
    ELSE LET prev == ReachVia(through, k - 1)
         IN  prev \cup UNION {LinkTargets(u) : u \in prev \cap through}

RECURSIVE HtmlFetches(_)
HtmlFetches(log) ==
    IF log = <<>> THEN <<>>
    ELSE IF Head(log).outcome = "html"
         THEN <<Head(log).url>> \o HtmlFetches(Tail(log))
         ELSE HtmlFetches(Tail(log))

\* C1: the sequence of fetch attempts of a traversal contains each URL at
\* most once.  (Stated as claimed; the code fetches a URL again when an
\* earlier attempt failed or was not HTML.)
C1_FetchedAtMostOnce ==
    \A i, j \in DOMAIN fetchLog :
        fetchLog[i].url = fetchLog[j].url => i = j

\* C2: whenever a fetch of a URL is being attempted, the URL is already in
\* visited_urls.  (Stated as claimed; the code adds the URL after the fetch.)
C2_InLedgerBeforeFetch ==
    (Crawling /\ Top.at = "fetch") => Top.url \in visited_urls

\* C3: results never holds two records with the same URL.
C3_OneRecordPerUrl ==
    \A i, j \in DOMAIN results :
        results[i].URL = results[j].URL => i = j

\* a finished crawl in which two different recorded pages link to one
\* recorded URL
C3_Witness ==
    /\ CrawlReturned
    /\ \E u \in RecordedUrls :
        \E p, q \in RecordedUrls :
            /\ p # q
            /\ u \in LinkTargets(p)
            /\ u \in LinkTargets(q)

\* C4: every URL fetched, and every URL recorded, has the seed's network
\* location.
C4_ScopeContainment ==
    /\ \A i \in DOMAIN fetchLog : Netloc(fetchLog[i].url) = Netloc(BaseUrl)
    /\ \A i \in DOMAIN results : Netloc(results[i].URL) = Netloc(BaseUrl)

\* a finished crawl of a seed that links to a page of its own domain, which
\* was recorded, and to another domain
C4_Witness ==
    /\ CrawlReturned
    /\ OtherUrl \in LinkTargets(BaseUrl)
    /\ \E u \in LinkTargets(BaseUrl) : u # BaseUrl /\ u \in RecordedUrls

\* C5: every record was made at a depth of at most max_depth and its URL is
\* within max_depth links of the seed along recorded pages; a crawl with
\* max_depth = 0 of a seed that answers HTML fetches the seed alone and
\* returns with exactly one record.
C5_DepthBound ==
    /\ \A i \in DOMAIN appendLog : appendLog[i].depth <= max_depth
    /\ \A i \in DOMAIN fetchLog : fetchLog[i].depth <= max_depth
    /\ RecordedUrls \subseteq ReachVia(RecordedUrls, max_depth)
    /\ (CrawlReturned /\ max_depth = 0 /\ web[BaseUrl].status = "html") =>
            /\ Len(results) = 1
            /\ results[1].URL = BaseUrl
            /\ Len(fetchLog) = 1

\* a returned crawl with max_depth = 0 whose seed carries a link to a page
\* of its own domain that answers HTML
C5_Witness ==
    /\ pc = "api_returned"
    /\ max_depth = 0
    /\ Len(results) = 1
    /\ \E u \in LinkTargets(BaseUrl) :
        u # BaseUrl /\ InScope(u) /\ web[u].status = "html"

\* C6: when crawl has returned, every page of the seed's domain that always
\* answers HTML and lies within max_depth links of the seed along such
\* pages has a record.  (Stated as claimed; the code misses pages that the
\* walk first meets deeper than their shortest distance.)
HtmlInScope == {u \in DOMAIN web : InScope(u) /\ web[u].status = "html"}
ReachableHtml == ReachVia(HtmlInScope, max_depth) \cap HtmlInScope
C6_AllReachableRecorded ==
    (CrawlReturned /\ BaseUrl \in HtmlInScope) => ReachableHtml \subseteq RecordedUrls

C8_CheckpointCadence ==
    /\ Len(Checkpoints) = Len(results) \div SaveEvery
    /\ \A k \in DOMAIN Checkpoints :
        /\ Checkpoints[k].size = SaveEvery * k
        /\ Checkpoints[k].content =
                get_results_as_json(SubSeq(AppendedRecs, 1, SaveEvery * k))
    /\ pc \in {"main_crawl", "api_crawl"} => Len(saveLog) = Len(Checkpoints)

\* the second checkpoint of a run has been issued
C8_Witness == Len(Checkpoints) = 2

\* C9: once the crawl started by main has returned, main issues the final
\* save; that save is the last one of the run, carries the serialization
\* of every record appended, in order, and is not rejected as empty.
C9_FinalSaveAlways ==
    /\ (pc = "main_crawl" /\ stack = <<>>) => ENABLED MainFinalSave
    /\ pc \in {"saved", "error_logged"} =>
        /\ saveLog # <<>>
        /\ saveLog[Len(saveLog)].kind = "final"
        /\ saveLog[Len(saveLog)].content = get_results_as_json(AppendedRecs)
        /\ saveLog[Len(saveLog)].raised # "ValueError"
        /\ Len(saveLog) = Len(Checkpoints) + 1

\* main has saved the final results of a crawl that recorded nothing
C9_Witness == pc = "saved" /\ results = <<>> /\ fetchLog # <<>>

\* C10: after a checkpoint save has failed, crawl does not return normally
\* and no further page is fetched.  (Stated as claimed; _save_progress
\* swallows the exception and the traversal goes on.)
C10_CheckpointFailureSurfaced ==
    \A i \in DOMAIN saveLog :
        (saveLog[i].kind = "checkpoint" /\ saveLog[i].raised # "none") =>
            /\ pc \notin {"saved", "api_returned"}
            /\ Len(fetchLog) <= saveLog[i].fetched

\* ------------------------------------------------------------ C11 .. C19
SaveIssued == Len(saveLog') = Len(saveLog) + 1
LastSave == saveLog[Len(saveLog)]
AllSavesSucceeded == \A i \in DOMAIN saveLog : saveLog[i].raised = "none"

\* C11: a save writes to the first name of the sequence output, base_1,
\* base_2, ... that does not exist, returns that name, and leaves every file
\* that existed before the call as it was.
C11_SaveNeverOverwrites ==
    [][SaveIssued =>
        LET e == saveLog'[Len(saveLog')]
        IN  /\ e.path \in FileIdx
            /\ ~fs[e.path].exists
            /\ \A j \in 0 .. e.path - 1 : fs[j].exists
            /\ e.raised = "none" => fs'[e.path] = File(e.content)
            /\ \A k \in FileIdx : fs[k].exists => fs'[k] = fs[k]]_vars

\* a save succeeded under a numbered name while a file from before the run
\* is still on disk
C11_Witness ==
    /\ \E i \in DOMAIN saveLog : saveLog[i].raised = "none" /\ saveLog[i].path >= 1
    /\ \E k \in FileIdx : fs[k] = File(OldData)

\* C12: every run ends, and a run of main that crawled ends either with the
\* final file written or with the failure of the final save raised to main.
Ended == ~ENABLED <<Next>>_vars
C13_OutputHoldsFinalResults ==
    (pc = "saved" /\ AllSavesSucceeded /\ fs[0] # File(OldData)) =>
        fs[0] = File(get_results_as_json(results))

\* The depth-first walk of crawl written as a function of the site: the
\* URLs requested and the URLs recorded, in order, for a site on which every
\* URL always answers the same way.
StatusOf(url) == IF url \in DOMAIN web THEN web[url].status ELSE "fail"
NoFlaky == \A u \in DOMAIN web : web[u].status # "flaky"

RECURSIVE Walk(_, _, _), WalkLinks(_, _, _, _)
Walk(url, depth, st) ==
    IF depth > max_depth \/ url \in st.visited THEN st
    ELSE LET fetched == [st EXCEPT !.fetches = Append(@, url)]
         IN  IF StatusOf(url) # "html" THEN fetched
             ELSE WalkLinks(url, depth, 1,
                    [fetched EXCEPT !.visited = @ \cup {url},
                                    !.order = Append(@, url)])
WalkLinks(url, depth, i, st) ==
    IF i > Len(Links(url)) THEN st
    ELSE LET full == UrlJoin(url, Links(url)[i])
         IN  IF InScope(full) /\ full \notin st.visited
             THEN WalkLinks(url, depth, i + 1, Walk(full, depth + 1, st))
             ELSE WalkLinks(url, depth, i + 1, st)

DepthFirst == Walk(BaseUrl, 0, [visited |-> {}, order |-> <<>>, fetches |-> <<>>])
IsPrefix(s, t) == Len(s) <= Len(t) /\ \A i \in DOMAIN s : s[i] = t[i]
FetchedUrls == [i \in DOMAIN fetchLog |-> fetchLog[i].url]
ResultUrls == [i \in DOMAIN results |-> results[i].URL]

\* C14: the pages are requested and recorded in the order of the
\* depth-first walk: everything below a link of a page comes before the
\* next link of that page, so results is the pre-order of the walk.
C14_DepthFirstOrder ==
    (NoFlaky /\ pc # "init") =>
        /\ IsPrefix(FetchedUrls, DepthFirst.fetches)
        /\ IsPrefix(ResultUrls, DepthFirst.order)
        /\ CrawlReturned =>
            /\ Len(FetchedUrls) = Len(DepthFirst.fetches)
            /\ Len(ResultUrls) = Len(DepthFirst.order)

\* a finished crawl that recorded the page below the seed's first link
\* before the page of the seed's second link
C14_Witness ==
    /\ CrawlReturned
    /\ NoFlaky
    /\ Links(BaseUrl) = <<Rel(1), Rel(2)>>
    /\ ResultUrls = <<BaseUrl, Url("ex.test", 1), Url("ex.test", 3), Url("ex.test", 2)>>

\* C15: a request that fails or does not answer HTML ends the visit of that
\* URL alone: no record, no save, no change of visited_urls; crawl returns
\* to its caller, whose link loop stands at the next link.
C15_FailureIsLocal ==
    [][(Len(fetchLog') = Len(fetchLog) + 1
            /\ fetchLog'[Len(fetchLog')].outcome # "html") =>
        /\ results' = results
        /\ visited_urls' = visited_urls
        /\ saveLog' = saveLog
        /\ fs' = fs
        /\ pc' = pc
        /\ stack' = SubSeq(stack, 1, Len(stack) - 1)
        /\ Len(stack) > 1 =>
            LET caller == stack'[Len(stack')]
            IN  /\ caller.at = "links"
                /\ UrlJoin(caller.url, Links(caller.url)[caller.i - 1]) = Top.url]_vars

\* a finished crawl in which a request failed and a later link of the same
\* page was requested
C15_Witness ==
    /\ CrawlReturned
    /\ \E i, j \in DOMAIN fetchLog :
        /\ i < j
        /\ fetchLog[i].outcome # "html"
        /\ fetchLog[i].depth = 1
        /\ fetchLog[j].depth = 1
        /\ fetchLog[j].url # fetchLog[i].url

\* C16: the saves of a run that succeed are written to names that differ
\* from one another, each file still holds what was written to it, namely
\* the serialization of all records appended by then; a finished run with k
\* checkpoints whose saves all succeeded has made k + 1 files.
WrittenByRun == {k \in FileIdx : fs[k].exists /\ fs[k] # File(OldData)}
C16_DistinctSnapshots ==
    /\ \A i, j \in DOMAIN saveLog :
        (i < j /\ saveLog[i].raised = "none" /\ saveLog[j].raised = "none") =>
            saveLog[i].path # saveLog[j].path
    /\ \A i \in DOMAIN saveLog :
        saveLog[i].raised = "none" =>
            /\ fs[saveLog[i].path] = File(saveLog[i].content)
            /\ saveLog[i].content =
                    get_results_as_json(SubSeq(AppendedRecs, 1, saveLog[i].size))
    /\ (pc = "saved" /\ AllSavesSucceeded) =>
            Cardinality(WrittenByRun) = Len(Checkpoints) + 1

\* main has finished a run of two checkpoints in which every save succeeded
C16_Witness ==
    /\ pc = "saved"
    /\ AllSavesSucceeded
    /\ Len(Checkpoints) = 2

\* C17: in every step results keeps its earlier contents as a prefix and
\* visited_urls keeps its elements; the final save changes neither and a
\* checkpoint comes with exactly the one append that made it due; two saves
\* issued at the same size of results carry the same serialization.
C17_AppendOnly ==
    /\ [][/\ IsPrefix(results, results')
          /\ visited_urls \subseteq visited_urls'
          /\ Len(results') <= Len(results) + 1
          /\ (SaveIssued /\ Len(results') = Len(results)) =>
                visited_urls' = visited_urls]_vars
    /\ [](\A i, j \in DOMAIN saveLog :
            saveLog[i].size = saveLog[j].size =>
                saveLog[i].content = saveLog[j].content)

\* main has saved right after a checkpoint, with no append in between
C17_Witness ==
    /\ pc = "saved"
    /\ Len(saveLog) >= 2
    /\ saveLog[Len(saveLog) - 1].size = LastSave.size

\* C18: a link is followed exactly when its network location equals the
\* seed's and it is not in visited_urls; deciding so changes neither
\* visited_urls nor results.
AtLink == Crawling /\ Top.at = "links" /\ Top.i <= Len(Links(Top.url))
C18_ScopeCheck ==
    [][AtLink =>
        LET candidate == UrlJoin(Top.url, Links(Top.url)[Top.i])
        IN  /\ (Len(stack') = Len(stack) + 1) <=>
                    (candidate.netloc = "ex.test" /\ candidate \notin visited_urls)
            /\ Len(stack') = Len(stack) + 1 => stack'[Len(stack')].url = candidate
            /\ visited_urls' = visited_urls
            /\ results' = results]_vars

\* the link loop has just passed a link to a subdomain of the seed's domain
C18_Witness ==
    /\ Crawling
    /\ Top.at = "links"
    /\ Top.i >= 2
    /\ Links(Top.url)[Top.i - 1] = SubUrl

====
